---- MODULE Spec2Model ----
(***************************************************************************)
(* webtoon-dl: episode discovery, batch planning and the concurrent        *)
(* fetch-and-assemble executor.                                            *)
(*                                                                         *)
(* Strings are modelled as sequences of tokens: a token is a run of        *)
(* characters that the program's patterns never split ("episode_no=", a    *)
(* digit, "/", "viewer", ".gif", ...).                                     *)
(***************************************************************************)
EXTENDS Integers, Sequences, FiniteSets, TLC

(***************************************************************************)
(* Bounds of the model.                                                    *)
(***************************************************************************)
\* listing pages 1..K of a simulated paginated source, K <= MaxPages
MaxPages == 3
\* anchors listed on pages 1..K of a simulated source, all pages together
MaxListed == 3

(***************************************************************************)
(* Strings as token sequences.                                             *)
(***************************************************************************)
Digit == {"0", "1", "2", "3", "4", "5", "6", "7", "8", "9"}

DigitVal(c) ==
    CASE c = "0" -> 0 [] c = "1" -> 1 [] c = "2" -> 2 [] c = "3" -> 3
      [] c = "4" -> 4 [] c = "5" -> 5 [] c = "6" -> 6 [] c = "7" -> 7
      [] c = "8" -> 8 [] c = "9" -> 9

\* math.MaxInt, the largest int: the default of -max-ep, and the largest
\* value strconv.Atoi returns
MaxInt == 2147483647

\* the decimal digits of a natural number
RECURSIVE Itoa(_)
Itoa(n) ==
    LET d == CHOOSE c \in Digit : DigitVal(c) = n % 10
    IN  IF n < 10 THEN <<d>> ELSE Append(Itoa(n \div 10), d)

\* a run of digits without its leading zeros (one digit is kept)
RECURSIVE stripZeros(_)
stripZeros(ds) ==
    IF Len(ds) > 1 /\ Head(ds) = "0" THEN stripZeros(Tail(ds)) ELSE ds

\* the number written ds is larger than the number written ms (no leading zeros)
digitsExceed(ds, ms) ==
    \/ Len(ds) > Len(ms)
    \/ /\ Len(ds) = Len(ms)
       /\ \E i \in DOMAIN ds :
             /\ DigitVal(ds[i]) > DigitVal(ms[i])
             /\ \A k \in 1..(i - 1) : ds[k] = ms[k]

\* strconv.Atoi returns no error: the value fits an int
atoiInRange(ds) == ~digitsExceed(stripZeros(ds), Itoa(MaxInt))

atoiLastDigit(ds) == DigitVal(ds[Len(ds)])

\* strconv.Atoi on a non-empty run of decimal digits whose value fits an int
RECURSIVE Atoi(_)
Atoi(ds) ==
    IF ds = <<>> THEN 0
    ELSE 10 * Atoi(SubSeq(ds, 1, Len(ds) - 1)) + DigitVal(ds[Len(ds)])

\* strings.Contains(s, sub), sub a token sequence
Contains(s, sub) ==
    \E i \in 0..(Len(s) - Len(sub)) : SubSeq(s, i + 1, i + Len(sub)) = sub

SetMin(S) == CHOOSE x \in S : \A y \in S : x <= y

\* regexp "episode_no=([0-9]+)": the leftmost match, its digit run greedy;
\* 0 when there is no match or strconv.Atoi returns an error
episodeNo(episodeLink) ==
    LET starts == {i \in 1..(Len(episodeLink) - 1) :
                      /\ episodeLink[i] = "episode_no="
                      /\ episodeLink[i + 1] \in Digit}
    IN  IF starts = {} THEN 0
        ELSE LET i == SetMin(starts)
                 stops == {j \in (i + 1)..Len(episodeLink) :
                              \/ j = Len(episodeLink)
                              \/ episodeLink[j + 1] \notin Digit}
                 digits == SubSeq(episodeLink, i + 1, SetMin(stops))
             IN  IF atoiInRange(digits) THEN Atoi(digits) ELSE 0

(***************************************************************************)
(* The catalog crawler.                                                    *)
(***************************************************************************)
ViewerUrl(tail) == <<"/", "viewer", "?">> \o tail

\* the anchors a simulated listing page may carry: (href, caption)
Anchors ==
    { [href |-> ViewerUrl(<<"episode_no=", "2">>), text |-> "A"],
      [href |-> ViewerUrl(<<"episode_no=", "1", "0">>), text |-> "B"],
      [href |-> ViewerUrl(<<"title_no=", "7">>), text |-> "A"],
      [href |-> ViewerUrl(<<"episode_no=", "2">>), text |-> "B"],
      [href |-> <<"/", "list", "?", "episode_no=", "5">>, text |-> "N"] }

\* getEpisodeLinksForPage on a fetched page: the anchors of the detail_lst
\* region whose href contains "/viewer", with their caption
RECURSIVE getEpisodeLinksForPage(_)
getEpisodeLinksForPage(anchors) ==
    IF anchors = <<>> THEN <<>>
    ELSE LET a == Head(anchors)
             rest == getEpisodeLinksForPage(Tail(anchors))
         IN  IF Contains(a.href, <<"/", "viewer">>)
             THEN <<[title |-> a.text, url |-> a.href]>> \o rest
             ELSE rest

\* the body of the inner loop of getAllEpisodeLinks over one page's episodes:
\* stops at the first episode already in the set
RECURSIVE scanEpisodes(_, _)
scanEpisodes(episodeSet, episodes) ==
    IF episodes = <<>> THEN [set |-> episodeSet, foundLastPage |-> FALSE]
    ELSE IF Head(episodes) \in episodeSet
         THEN [set |-> episodeSet, foundLastPage |-> TRUE]
         ELSE scanEpisodes(episodeSet \cup {Head(episodes)}, Tail(episodes))

lessFlipped(a, b) == episodeNo(a.url) > episodeNo(b.url)

\* the less function handed to sort.Slice
less(a, b) == episodeNo(a.url) < episodeNo(b.url)

Orders(S) ==
    {s \in [1..Cardinality(S) -> S] : \A i, j \in DOMAIN s : i # j => s[i] # s[j]}

\* sort.Slice over the elements of the map, ranged in an unspecified order:
\* the sort is not stable, so every order that less does not contradict
sortedOrders(S) ==
    {s \in Orders(S) : \A i, j \in DOMAIN s : i < j => ~less(s[j], s[i])}

(***************************************************************************)
(* The image-link resolver.                                                *)
(***************************************************************************)
\* strings.ReplaceAll(s, old, new) for a one-token old
RECURSIVE ReplaceAll(_, _, _)
ReplaceAll(s, old, new) ==
    IF s = <<>> THEN <<>>
    ELSE (IF Head(s) = old THEN new ELSE <<Head(s)>>)
             \o ReplaceAll(Tail(s), old, new)

lexLessShortFirst(a, b) ==
    \/ Len(a) < Len(b)
    \/ /\ Len(a) = Len(b)
       /\ \E i \in DOMAIN a : a[i] < b[i] /\ \A k \in 1..(i - 1) : a[k] = b[k]

\* byte-wise lexicographic order of two keys (sequences of byte values)
RECURSIVE LexLess(_, _)
LexLess(a, b) ==
    IF b = <<>> THEN FALSE
    ELSE IF a = <<>> THEN TRUE
    ELSE IF Head(a) # Head(b) THEN Head(a) < Head(b)
    ELSE LexLess(Tail(a), Tail(b))

\* sort.Strings over the keys of the manifest's image map
sortStrings(keys) ==
    CHOOSE s \in Orders(keys) : \A i, j \in DOMAIN s : i < j => LexLess(s[i], s[j])

\* json.Unmarshal of the manifest into map[string]string: of the entries
\* with one key the last is kept
imageMap(manifest) ==
    [k \in {manifest[i].key : i \in DOMAIN manifest} |->
        LET last == CHOOSE i \in DOMAIN manifest :
                        /\ manifest[i].key = k
                        /\ \A n \in DOMAIN manifest : manifest[n].key = k => n <= i
        IN  manifest[last].file]

\* getOzPageImgLinks: the manifest fallback. exit: the function ended the
\* process with os.Exit(1)
getOzPageImgLinks(doc) ==
    IF ~doc.hasDocumentURL \/ doc.manifestFetchErr \/ doc.manifestJsonErr
           \/ ~doc.hasPathRule
    THEN [exit |-> TRUE, links |-> <<>>]
    ELSE LET image == imageMap(doc.manifest)
             sortedKeys == sortStrings(DOMAIN image)
         IN  [exit |-> FALSE,
              links |-> [i \in DOMAIN sortedKeys |->
                            ReplaceAll(doc.pathRule, "{=filename}",
                                       image[sortedKeys[i]])]]

\* the img elements that carry a data-url attribute, in document order
RECURSIVE dataUrls(_)
dataUrls(imgs) ==
    IF imgs = <<>> THEN <<>>
    ELSE (IF Head(imgs).hasDataUrl THEN <<Head(imgs).dataUrl>> ELSE <<>>)
             \o dataUrls(Tail(imgs))

\* getImgLinksForEpisode on the fetched and parsed episode page
imgLinksOfDoc(doc) ==
    IF Len(doc.imgs) = 0 THEN getOzPageImgLinks(doc)
    ELSE [exit |-> FALSE, links |-> dataUrls(doc.imgs)]

(***************************************************************************)
(* The simulated site: series, their listing pages, their episode pages.   *)
(***************************************************************************)
SeriesUrl(lang, title) ==
    <<"https://", "www.", "webtoons.com/", lang, "/", "genre", "/", title, "/",
      "list", "?", "title_no=", "9">>

EpisodeUrl(lang, title, no) ==
    <<"https://", "www.", "webtoons.com/", lang, "/", "genre", "/", title, "/",
      "ep", "/", "viewer", "?", "title_no=", "9", "&", "episode_no=">> \o no

\* an episode page of the series whose URL has no episode_no
TeaserUrl ==
    <<"https://", "www.", "webtoons.com/", "en", "/", "genre", "/", "alpha", "/",
      "teaser", "/", "viewer", "?", "title_no=", "9">>

Img(name) == <<"https://", "cdn/", name, ".jpg", "?type=q70">>
Gif(name) == <<"https://", "cdn/", name, ".gif", "?type=q70">>

PlainDoc(links) ==
    [imgs |-> [i \in DOMAIN links |-> [hasDataUrl |-> TRUE, dataUrl |-> links[i]]],
     hasDocumentURL |-> FALSE, manifestFetchErr |-> FALSE,
     manifestJsonErr |-> FALSE, hasPathRule |-> FALSE,
     manifest |-> <<>>, pathRule |-> <<>>]

\* the episode page served for an episode URL
Web(url) ==
    LET title == IF Len(url) >= 8 THEN url[8] ELSE ""
        no == episodeNo(url)
    IN  CASE url = TeaserUrl -> PlainDoc(<<Img("t0")>>)
          [] title = "alpha" /\ no = 1 -> PlainDoc(<<Img("a1")>>)
          [] title = "alpha" /\ no = 2 -> PlainDoc(<<Img("a2"), Gif("anim")>>)
          [] title = "alpha" /\ no = 3 -> PlainDoc(<<Gif("cover"), Img("a3")>>)
          [] title = "beta" /\ no = 1 -> PlainDoc(<<Img("b1")>>)
          [] title = "beta" /\ no = 2 -> PlainDoc(<<Img("b2")>>)
          [] OTHER -> PlainDoc(<<>>)

getImgLinksForEpisode(url) == imgLinksOfDoc(Web(url))

\* getImgLinksForEpisodes: the links of the episodes, concatenated in order;
\* the first episode page that exits the process ends it
RECURSIVE getImgLinksForEpisodes(_)
getImgLinksForEpisodes(episodeLinks) ==
    IF episodeLinks = <<>> THEN [exit |-> FALSE, links |-> <<>>]
    ELSE LET r == getImgLinksForEpisode(Head(episodeLinks))
             rest == getImgLinksForEpisodes(Tail(episodeLinks))
         IN  IF r.exit \/ rest.exit THEN [exit |-> TRUE, links |-> <<>>]
             ELSE [exit |-> FALSE, links |-> r.links \o rest.links]

(***************************************************************************)
(* The batch planner.                                                      *)
(***************************************************************************)
\* createTitle: every title followed by "_", the last byte then cut off
RECURSIVE titleWithSeparators(_)
titleWithSeparators(episodetitles) ==
    IF episodetitles = <<>> THEN ""
    ELSE (Head(episodetitles) \o "_") \o titleWithSeparators(Tail(episodetitles))

titleUncut(episodetitles) == titleWithSeparators(episodetitles)

createTitle(episodetitles) ==
    LET title == titleWithSeparators(episodetitles)
        last == Len(title) - 1
    IN  SubSeq(title, 1, last)

desiredEpisodesUpTo(allEpisodeLinks, minEp, maxEp) ==
    SelectSeq(allEpisodeLinks, LAMBDA e : episodeNo(e.url) <= maxEp)

\* the episodes of the catalog whose number lies in [minEp, maxEp]
RECURSIVE desiredEpisodes(_, _, _)
desiredEpisodes(allEpisodeLinks, minEp, maxEp) ==
    IF allEpisodeLinks = <<>> THEN <<>>
    ELSE LET episodeLink == Head(allEpisodeLinks)
             epNo == episodeNo(episodeLink.url)
             rest == desiredEpisodes(Tail(allEpisodeLinks), minEp, maxEp)
         IN  IF epNo >= minEp /\ epNo <= maxEp THEN <<episodeLink>> \o rest ELSE rest

batchEndGreedy(start, epsPerBatch, len) ==
    IF start + epsPerBatch + 1 >= len THEN len ELSE start + epsPerBatch

\* the end (exclusive, 0-based) of the batch that starts at start
batchEnd(start, epsPerBatch, len) ==
    IF start + epsPerBatch > len THEN len ELSE start + epsPerBatch

\* the loop "for start := 0; start < len(desiredEpisodeLinks); start += epsPerBatch".
\* episodes is the slice desiredEpisodeLinks[start:end] the batch is built from
\* (kept beside the fields of EpisodeBatch).
RECURSIVE batchesFrom(_, _, _)
batchesFrom(desired, start, epsPerBatch) ==
    IF start >= Len(desired) THEN <<>>
    ELSE LET end == batchEnd(start, epsPerBatch, Len(desired))
             slice == SubSeq(desired, start + 1, end)
             links == [i \in DOMAIN slice |-> slice[i].url]
             titles == [i \in DOMAIN slice |-> slice[i].title]
         IN  <<[imgLinks |-> getImgLinksForEpisodes(links).links,
                title |-> createTitle(titles),
                minEp |-> episodeNo(desired[start + 1].url),
                maxEp |-> episodeNo(desired[end].url),
                episodes |-> links]>>
             \o batchesFrom(desired, start + epsPerBatch, epsPerBatch)

isViewerUrlNever(url) == FALSE

\* strings.Contains(url, "/viewer")
isViewerUrl(url) == Contains(url, <<"/", "viewer">>)

\* getEpisodeBatches, given the catalog getAllEpisodeLinks returns for the
\* URL when it is called. exit: an episode page ended the process; err: the
\* error returned ("" for nil); crawled: getAllEpisodeLinks was called, which
\* fetches listing page 1 at least.
getEpisodeBatches(url, allEpisodeLinks, minEp, maxEp, epsPerBatch) ==
    IF isViewerUrl(url)
    THEN LET r == getImgLinksForEpisode(url)
         IN  [exit |-> r.exit, err |-> "", crawled |-> FALSE,
              batches |-> IF r.exit THEN <<>>
                          ELSE <<[imgLinks |-> r.links, title |-> "",
                                  minEp |-> episodeNo(url), maxEp |-> episodeNo(url),
                                  episodes |-> <<url>>]>>]
    ELSE LET desired == desiredEpisodes(allEpisodeLinks, minEp, maxEp)
             links == [i \in DOMAIN desired |-> desired[i].url]
         IN  IF Len(desired) = 0
             THEN [exit |-> FALSE, err |-> "No episode found", crawled |-> TRUE,
                   batches |-> <<>>]
             ELSE IF getImgLinksForEpisodes(links).exit
             THEN [exit |-> TRUE, err |-> "", crawled |-> TRUE, batches |-> <<>>]
             ELSE [exit |-> FALSE, err |-> "", crawled |-> TRUE,
                   batches |-> batchesFrom(desired, 0, epsPerBatch)]

(***************************************************************************)
(* The crawler as GetWebtoon sees it: every list getAllEpisodeLinks can    *)
(* return for a source, a failed fetch of any page included.               *)
(***************************************************************************)
RECURSIVE crawlSets(_, _, _)
crawlSets(src, p, set) ==
    {set} \cup
    IF p > Len(src) + 1 THEN {}
    ELSE LET served == IF p <= Len(src) THEN src[p] ELSE src[Len(src)]
             r == scanEpisodes(set, getEpisodeLinksForPage(served))
         IN  IF r.foundLastPage THEN {r.set} ELSE crawlSets(src, p + 1, r.set)

getAllEpisodeLinks(src) == UNION {sortedOrders(S) : S \in crawlSets(src, 1, {})}

EpisodeAnchor(lang, title, no, caption) ==
    [href |-> EpisodeUrl(lang, title, no), text |-> caption]

\* the listing pages served for a series URL (newest episode first)
Listing(url) ==
    LET title == IF Len(url) >= 8 THEN url[8] ELSE ""
    IN  CASE title = "alpha" ->
                << <<EpisodeAnchor("en", "alpha", <<"3">>, "Ep3"),
                     [href |-> SeriesUrl("en", "alpha"), text |-> "list"],
                     EpisodeAnchor("en", "alpha", <<"2">>, "Ep2")>>,
                   <<EpisodeAnchor("en", "alpha", <<"1">>, "Ep1")>> >>
          [] title = "beta" ->
                << <<EpisodeAnchor("en", "beta", <<"2">>, "Bonus"),
                     EpisodeAnchor("en", "beta", <<"1">>, "Bonus")>> >>
          [] OTHER -> << <<>> >>

(***************************************************************************)
(* Output paths, the series title, the progress store.                     *)
(***************************************************************************)
\* url.ParseRequestURI accepts an absolute URI or an absolute path
validRequestURI(url) ==
    /\ url # <<>>
    /\ url[1] \in {"http://", "https://", "/"}

\* strings.Split(s, "/"): the runs of tokens between the "/" tokens
RECURSIVE splitSlash(_, _)
splitSlash(s, cur) ==
    IF s = <<>> THEN <<cur>>
    ELSE IF Head(s) = "/" THEN <<cur>> \o splitSlash(Tail(s), <<>>)
    ELSE splitSlash(Tail(s), Append(cur, Head(s)))

stripHost(url) ==
    ReplaceAll(ReplaceAll(ReplaceAll(ReplaceAll(url, "http://", <<>>),
               "https://", <<>>), "www.", <<>>), "webtoons.com/", <<>>)

\* getWebtoonTitle: err, or a panic of the index expression, or (title, lang)
getWebtoonTitle(url) ==
    IF ~validRequestURI(url) THEN [err |-> TRUE, panic |-> FALSE, title |-> <<>>, lang |-> <<>>]
    ELSE LET parts == splitSlash(stripHost(url), <<>>)
         IN  IF Len(parts) < 3
             THEN [err |-> FALSE, panic |-> TRUE, title |-> <<>>, lang |-> <<>>]
             ELSE [err |-> FALSE, panic |-> FALSE, title |-> parts[3], lang |-> parts[1]]

\* saveBatch's outFile: "webtoon/%s/%s/%s.%s"
outFileOf(title, lang, episodeBatch, format) ==
    <<"webtoon/", title, "/", lang, "/", episodeBatch.title, ".", format>>

fileExists(fs, path) == \E f \in fs : f.path = path
writeFile(fs, path, data) ==
    {f \in fs : f.path # path} \cup {[path |-> path, data |-> data]}

\* "insert or replace into webtoon ..." under PRIMARY KEY(titre, lang)
upsert(rows, row) ==
    SelectSeq(rows, LAMBDA r : ~(r.titre = row.titre /\ r.lang = row.lang))
        \o <<row>>

VARIABLES
    \* getAllEpisodeLinks
    source,         \* the simulated site: listing pages 1..K, each a sequence of anchors
    page,           \* the loop counter: the number of the next page to fetch
    episodeSet,     \* the set of EpisodeInfo accumulated so far
    foundLastPage,
    fetchedPages,   \* the page numbers fetched so far, in order
    fetchFailed,    \* a listing page fetch returned an error
    cpc,            \* "loop" while in the loop, "done" once allEpisode is returned
    allEpisode,     \* the returned list
    \* getEpisodeBatches, called on its own
    inUrl, inAll, inMinEp, inMaxEp, inEpsPerBatch,  \* its arguments and catalog
    ppc,            \* "call" before the call, "done" after it
    outPlan,        \* what it returned
    \* a function of the program called on its own
    fn,             \* its name
    arg,            \* its argument
    res,            \* what it returned
    fpc,            \* "call" before the call, "done" after it
    \* the program: main, GetWebtoons, GetWebtoon, saveBatch
    database, FileVerify, confOverride, MaxWebtoonGoroutine,   \* the flags
    EpisodeGoroutine, WebtoonGoroutine,                         \* -E and -W
    opts,           \* the Opts parseOpts returned
    rows,           \* the webtoon table of the progress store, in SELECT order
    files,          \* the output files on disk: {[path, data]}
    mpc,            \* main: "start", "dispatch" (the loop of GetWebtoons), "single"
    webtoons,       \* the Opts of the series jobs
    dispatched,     \* the series jobs handed to the outer pool so far
    outerQueue,     \* the tokens in the outer pool's channel
    outerWg,        \* the counter of the outer pool's WaitGroup
    spc,            \* per series job: "queued", "start", "dispatch", "done",
                    \* "recovered", "panicked", "exited"
    catalog,        \* per series job: the list getAllEpisodeLinks returned
    epFetched,      \* per series job: the episode pages fetched for image links
    batches,        \* per series job: the EpisodeBatch list getEpisodeBatches returned
    nextb,          \* per series job: the batches handed to its pool so far
    queue,          \* per series job: the tokens in its pool's channel
    wg,             \* per series job: the counter of its pool's WaitGroup
    bat,            \* per series job and batch: the state of its saveBatch goroutine:
                    \* st ("new", "start", "run", "skipped", "saved", "failed",
                    \* "fetcherr"), idx (links done), fetched (links fetched),
                    \* pages (images added to the comic file), saves (calls of save)
    exited          \* the exit status of the process, -1 while it runs

crawlVars == <<source, page, episodeSet, foundLastPage, fetchedPages, fetchFailed,
               cpc, allEpisode>>

planVars == <<inUrl, inAll, inMinEp, inMaxEp, inEpsPerBatch, ppc, outPlan>>

runVars == <<database, FileVerify, confOverride, MaxWebtoonGoroutine, EpisodeGoroutine,
             WebtoonGoroutine, opts, rows, files, mpc, webtoons, dispatched,
             outerQueue, outerWg, spc, catalog, epFetched, batches, nextb, queue,
             wg, bat, exited>>

callVars == <<fn, arg, res, fpc>>

vars == <<crawlVars, planVars, callVars, runVars>>

\* the variables of a part that is not running
RunOff ==
    /\ database = FALSE /\ FileVerify = FALSE /\ confOverride = FALSE
    /\ MaxWebtoonGoroutine = FALSE /\ EpisodeGoroutine = 0 /\ WebtoonGoroutine = 0
    /\ opts = <<>> /\ rows = <<>> /\ files = {} /\ mpc = "off" /\ webtoons = <<>>
    /\ dispatched = 0 /\ outerQueue = 0 /\ outerWg = 0 /\ spc = <<>>
    /\ catalog = <<>> /\ epFetched = <<>>
    /\ batches = <<>> /\ nextb = <<>> /\ queue = <<>> /\ wg = <<>> /\ bat = <<>>
    /\ exited = -1

PlanOff ==
    /\ inUrl = <<>> /\ inAll = <<>> /\ inMinEp = 0 /\ inMaxEp = 0
    /\ inEpsPerBatch = 1 /\ ppc = "off" /\ outPlan = <<>>

CrawlOff ==
    /\ source = <<>> /\ page = 0 /\ episodeSet = {} /\ foundLastPage = FALSE
    /\ fetchedPages = <<>> /\ fetchFailed = FALSE /\ cpc = "off"
    /\ allEpisode = <<>>

CallOff == fn = "" /\ arg = <<>> /\ res = <<>> /\ fpc = "off"

CrawlOnly == PlanOff /\ CallOff /\ RunOff
PlanOnly == CrawlOff /\ CallOff /\ RunOff
CallOnly == CrawlOff /\ PlanOff /\ RunOff
RunOnly == CrawlOff /\ PlanOff /\ CallOff

\* sequences over S of length exactly n / at most n
SeqsOfLen(S, n) == [1..n -> S]
SeqsUpTo(S, n) == UNION {SeqsOfLen(S, k) : k \in 0..n}

\* the sources of exactly k pages listing at most budget anchors together
RECURSIVE SourcesOf(_, _)
SourcesOf(k, budget) ==
    IF k = 0 THEN {<<>>}
    ELSE UNION { { <<p>> \o rest : rest \in SourcesOf(k - 1, budget - Len(p)) }
                 : p \in SeqsUpTo(Anchors, budget) }

Sources == UNION {SourcesOf(k, MaxListed) : k \in 1..MaxPages}

\* the site re-serves the last real page for any page number beyond it
ServedPage(src, p) == IF p <= Len(src) THEN src[p] ELSE src[Len(src)]

InitCrawl ==
    /\ source \in Sources
    /\ page = 1
    /\ episodeSet = {}
    /\ foundLastPage = FALSE
    /\ fetchedPages = <<>>
    /\ fetchFailed = FALSE
    /\ cpc = "loop"
    /\ allEpisode = <<>>
    /\ CrawlOnly

\* one iteration of the loop that fetches a page and finds no episode it
\* already holds: the loop goes on with the next page
CrawlPage ==
    /\ cpc = "loop"
    /\ page <= MaxPages + 2
    /\ LET r == scanEpisodes(episodeSet,
                             getEpisodeLinksForPage(ServedPage(source, page)))
       IN  /\ ~r.foundLastPage
           /\ episodeSet' = r.set
    /\ fetchedPages' = Append(fetchedPages, page)
    /\ page' = page + 1
    /\ UNCHANGED <<source, foundLastPage, fetchFailed, cpc, allEpisode, planVars, callVars,
                   runVars>>

\* the iteration that meets an episode already in the set: the loop ends, the
\* set is copied to a slice, sorted and returned
CrawlLastPage ==
    /\ cpc = "loop"
    /\ page <= MaxPages + 2
    /\ LET r == scanEpisodes(episodeSet,
                             getEpisodeLinksForPage(ServedPage(source, page)))
       IN  /\ r.foundLastPage
           /\ episodeSet' = r.set
           /\ allEpisode' \in sortedOrders(r.set)
    /\ foundLastPage' = TRUE
    /\ fetchedPages' = Append(fetchedPages, page)
    /\ page' = page + 1
    /\ cpc' = "done"
    /\ UNCHANGED <<source, fetchFailed, planVars, callVars, runVars>>

CrawlFetchErrorLosesAll ==
    /\ cpc = "loop"
    /\ page <= MaxPages + 2
    /\ fetchFailed' = TRUE
    /\ fetchedPages' = Append(fetchedPages, page)
    /\ allEpisode' = <<>>
    /\ cpc' = "done"
    /\ UNCHANGED <<source, page, episodeSet, foundLastPage, planVars, callVars,
                   runVars>>

\* the iteration whose fetch fails: break, then sort and return what was found
CrawlFetchError ==
    /\ cpc = "loop"
    /\ page <= MaxPages + 2
    /\ fetchFailed' = TRUE
    /\ fetchedPages' = Append(fetchedPages, page)
    /\ allEpisode' \in sortedOrders(episodeSet)
    /\ cpc' = "done"
    /\ UNCHANGED <<source, page, episodeSet, foundLastPage, planVars, callVars,
                   runVars>>

NextCrawl == CrawlPage \/ CrawlLastPage \/ CrawlFetchError

SpecCrawl == InitCrawl /\ [][NextCrawl]_vars

(***************************************************************************)
(* Crawl termination (C2).                                                 *)
(***************************************************************************)
Range(s) == {s[i] : i \in DOMAIN s}

\* the episodes listed on pages 1..k of a source, in listing order
RECURSIVE ListedUpTo(_, _)
ListedUpTo(src, k) ==
    IF k = 0 THEN <<>>
    ELSE ListedUpTo(src, k - 1) \o getEpisodeLinksForPage(src[k])

NoRepeat(s) == \A i, j \in DOMAIN s : i # j => s[i] # s[j]

AscendingByEpisodeNo(s) ==
    \A i, j \in DOMAIN s : i < j => episodeNo(s[i].url) <= episodeNo(s[j].url)

\* what the claim promises of a crawl over pages 1..K whose fetches all succeed
CrawlStopsAtKPlus1 ==
    LET K == Len(source)
    IN  /\ cpc = "loop" /\ ~fetchFailed => page <= K + 1
        /\ cpc = "done" /\ ~fetchFailed =>
              /\ fetchedPages = [i \in 1..(K + 1) |-> i]
              /\ Range(allEpisode) = Range(ListedUpTo(source, K))
              /\ NoRepeat(allEpisode)
              /\ AscendingByEpisodeNo(allEpisode)

\* the pages 1..K list each (title, url) entry once, and page K lists one at least
DistinctListing(src) ==
    /\ NoRepeat(ListedUpTo(src, Len(src)))
    /\ getEpisodeLinksForPage(src[Len(src)]) # <<>>

\* C2 as stated: for every K >= 1 and every source whose pages beyond K
\* re-serve page K, whatever the pages hold, the crawl fetches pages 1..K+1,
\* stops, and returns the deduplicated union of pages 1..K sorted by episode
\* number.
C2_AnySourceStopsAtKPlus1 == CrawlStopsAtKPlus1

\* C2 amended: the same, for the sources whose pages 1..K list pairwise
\* distinct (title, url) entries and whose page K lists at least one episode.
C2_DistinctSourceStopsAtKPlus1 == DistinctListing(source) => CrawlStopsAtKPlus1

C2_Witness ==
    /\ cpc = "done" /\ ~fetchFailed
    /\ DistinctListing(source)
    /\ Len(source) >= 2
    /\ fetchedPages = [i \in 1..(Len(source) + 1) |-> i]
    /\ Len(allEpisode) >= 3
    /\ \E i \in DOMAIN allEpisode : episodeNo(allEpisode[i].url) = 10

(***************************************************************************)
(* getEpisodeBatches on its own: every catalog the crawler can return,     *)
(* every range, every batch size.                                          *)
(***************************************************************************)
\* the largest -min-ep / -max-ep tried (besides the default math.MaxInt)
MaxEpArg == 3
\* the largest -eps-per-file tried
MaxEpsPerFile == 2

CatalogEpisodes ==
    { [title |-> "Ep1", url |-> EpisodeUrl("en", "alpha", <<"1">>)],
      [title |-> "Ep2", url |-> EpisodeUrl("en", "alpha", <<"2">>)],
      [title |-> "Ep3", url |-> EpisodeUrl("en", "alpha", <<"3">>)],
      [title |-> "Bonus", url |-> EpisodeUrl("en", "beta", <<"1">>)],
      [title |-> "Bonus", url |-> EpisodeUrl("en", "beta", <<"2">>)],
      [title |-> "", url |-> TeaserUrl] }

\* what getAllEpisodeLinks can return: distinct entries, sorted by episode number
Catalogs == UNION {sortedOrders(S) : S \in SUBSET CatalogEpisodes}

\* the episode URLs given to getEpisodeBatches: two episodes of a series,
\* an episode page without episode_no, an episode whose page has nothing
ViewerUrls ==
    {EpisodeUrl("en", "alpha", <<"2">>), EpisodeUrl("en", "alpha", <<"3">>),
     TeaserUrl, EpisodeUrl("en", "alpha", <<"7">>)}

\* for an episode URL inAll is the catalog the site would give for its series
InitPlan ==
    /\ \/ inUrl = SeriesUrl("en", "alpha") /\ inAll \in Catalogs
       \/ inUrl \in ViewerUrls /\ inAll \in Catalogs
    /\ inMinEp \in 0..MaxEpArg
    /\ inMaxEp \in {m \in 0..MaxEpArg : m >= inMinEp} \cup {MaxInt}
    /\ inEpsPerBatch \in 1..MaxEpsPerFile
    /\ ppc = "call"
    /\ outPlan = <<>>
    /\ PlanOnly

PlanBatches ==
    /\ ppc = "call"
    /\ outPlan' = getEpisodeBatches(inUrl, inAll, inMinEp, inMaxEp, inEpsPerBatch)
    /\ ppc' = "done"
    /\ UNCHANGED <<inUrl, inAll, inMinEp, inMaxEp, inEpsPerBatch, crawlVars, callVars,
                   runVars>>

NextPlan == PlanBatches

SpecPlan == InitPlan /\ [][NextPlan]_vars

(***************************************************************************)
(* Batch partition (C3).                                                   *)
(***************************************************************************)
RECURSIVE Flatten(_)
Flatten(ss) == IF ss = <<>> THEN <<>> ELSE Head(ss) \o Flatten(Tail(ss))

CeilDiv(a, b) == (a + b - 1) \div b

PlannedFromListing ==
    /\ ppc = "done"
    /\ ~Contains(inUrl, <<"/", "viewer">>)
    /\ ~outPlan.exit /\ outPlan.err = ""

\* C3: for a filtered list of length L >= 1 and epsPerBatch >= 1 there are
\* exactly ceil(L / epsPerBatch) batches, every batch but the last covers
\* exactly epsPerBatch episodes and the last between 1 and epsPerBatch, and the
\* batches' episodes concatenated in batch order are the filtered list.
C3_BatchesPartitionFilteredList ==
    PlannedFromListing =>
        LET desired == desiredEpisodes(inAll, inMinEp, inMaxEp)
            L == Len(desired)
            bs == outPlan.batches
        IN  /\ L >= 1
            /\ Len(bs) = CeilDiv(L, inEpsPerBatch)
            /\ \A b \in 1..(Len(bs) - 1) : Len(bs[b].episodes) = inEpsPerBatch
            /\ Len(bs[Len(bs)].episodes) \in 1..inEpsPerBatch
            /\ Flatten([b \in DOMAIN bs |-> bs[b].episodes])
                  = [i \in 1..L |-> desired[i].url]

C3_Witness ==
    /\ PlannedFromListing
    /\ inEpsPerBatch = 2
    /\ Len(outPlan.batches) = 2
    /\ Len(outPlan.batches[2].episodes) = 1
    /\ Len(inAll) > Len(desiredEpisodes(inAll, inMinEp, inMaxEp))

(***************************************************************************)
(* The program: main, GetWebtoons, GetWebtoonBatch, GetWebtoon, saveBatch. *)
(* A gopool pool is a channel of maxConcurrency tokens and a WaitGroup:    *)
(* Add(1) sends a token (blocking while the channel is full) and adds one  *)
(* to the WaitGroup, Done receives a token and takes one from it, Wait     *)
(* waits for the WaitGroup to reach 0.                                     *)
(***************************************************************************)
\* the largest -E tried
MaxE == 2
\* the largest -W tried
MaxW == 2

Opts(url, minEp, maxEp, epsPerFile, format) ==
    [url |-> url, minEp |-> minEp, maxEp |-> maxEp, epsPerFile |-> epsPerFile,
     format |-> format]

Row(title, lang, url, last, eps, format) ==
    [titre |-> title, lang |-> lang, url |-> url, last_chapter |-> last,
     epsPerFile |-> eps, format |-> format]

\* the URLs given with -u: two series, one episode, two that are no series URL
CmdUrls ==
    { SeriesUrl("en", "alpha"), SeriesUrl("en", "beta"),
      EpisodeUrl("en", "alpha", <<"2">>), EpisodeUrl("en", "alpha", <<"7">>),
      <<"alpha">>, <<"https://", "webtoons.com/", "en">> }

\* the (-min-ep, -max-ep) pairs tried
CmdRanges == { <<0, MaxInt>>, <<2, 3>>, <<4, MaxInt>> }

\* the webtoon tables tried in database mode
Tables ==
    { <<>>,
      <<Row(<<"alpha">>, <<"en">>, SeriesUrl("en", "alpha"), 2, 1, "pdf"),
        Row(<<"beta">>, <<"en">>, SeriesUrl("en", "beta"), 0, 2, "cbz")>>,
      <<Row(<<"beta">>, <<"en">>, SeriesUrl("en", "beta"), 3, 1, "cbz"),
        Row(<<"alpha">>, <<"en">>, SeriesUrl("en", "alpha"), 3, 1, "pdf")>>,
      <<Row(<<"gone">>, <<"en">>, <<"gone">>, 0, 1, "pdf"),
        Row(<<"beta">>, <<"en">>, SeriesUrl("en", "beta"), 1, 1, "pdf")>>,
      <<Row(<<"alpha">>, <<"en">>, EpisodeUrl("en", "alpha", <<"7">>), 7, 1, "pdf"),
        Row(<<"beta">>, <<"en">>, SeriesUrl("en", "beta"), 2, 1, "pdf")>>,
      <<Row(<<"alpha">>, <<"en">>, EpisodeUrl("en", "alpha", <<"2">>), 3, 1, "pdf")>> }

\* the output files found on disk at start
OldFiles ==
    { {},
      { [path |-> outFileOf(<<"alpha">>, <<"en">>, [title |-> "Ep2"], "pdf"),
         data |-> <<"old">>] } }

\* in database mode the files and -file are left at their defaults, and
\* -eps-per-file is given
InitRun ==
    /\ database \in BOOLEAN
    /\ IF database
       THEN /\ opts = Opts(<<>>, 0, MaxInt, MaxEpsPerFile, "pdf")
            /\ rows \in Tables
            /\ confOverride \in BOOLEAN
            /\ MaxWebtoonGoroutine \in BOOLEAN
            /\ WebtoonGoroutine \in 0..MaxW
            /\ EpisodeGoroutine \in 1..MaxE
            /\ FileVerify = FALSE
            /\ files = {}
       ELSE /\ \E u \in CmdUrls, r \in CmdRanges, n \in 1..MaxEpsPerFile :
                  opts = Opts(u, r[1], r[2], n, "pdf")
            /\ rows = <<>>
            /\ confOverride = FALSE
            /\ MaxWebtoonGoroutine = FALSE
            /\ WebtoonGoroutine = 3
            /\ EpisodeGoroutine \in 0..MaxE
            /\ FileVerify \in BOOLEAN
            /\ files \in OldFiles
    /\ mpc = "start"
    /\ webtoons = <<>>
    /\ dispatched = 0 /\ outerQueue = 0 /\ outerWg = 0
    /\ spc = <<>> /\ catalog = <<>> /\ epFetched = <<>>
    /\ batches = <<>> /\ nextb = <<>> /\ queue = <<>> /\ wg = <<>>
    /\ bat = <<>>
    /\ exited = -1
    /\ RunOnly

Running == exited = -1

poolHasRoomAlways(tokens, maxConcurrency) == TRUE

\* pool.Add(1) can send its token: the channel of maxConcurrency slots is not full
poolHasRoom(tokens, maxConcurrency) == tokens < maxConcurrency

\* what parseOpts sets and nothing changes afterwards
flags == <<database, FileVerify, confOverride, MaxWebtoonGoroutine, EpisodeGoroutine,
           opts>>
otherVars == <<crawlVars, planVars, callVars>>

optsOfRowFromFlags(o, row) == [o EXCEPT !.url = row.url]

\* the Opts GetWebtoons builds for a row of the table
optsOfRow(o, row) ==
    IF confOverride THEN [o EXCEPT !.url = row.url]
    ELSE [o EXCEPT !.url = row.url, !.epsPerFile = row.epsPerFile,
                   !.format = row.format, !.minEp = row.last_chapter]

\* the rows the SELECT of GetWebtoons returns
selectedRows(table, o) ==
    IF Len(o.url) = 0 THEN table
    ELSE SelectSeq(table, LAMBDA r : r.url = o.url)

\* main up to the series: in database mode GetWebtoons reads the table, sizes
\* the outer pool and enters its loop; otherwise main calls GetWebtoon itself
MainStart ==
    /\ Running /\ mpc = "start"
    /\ LET sel == selectedRows(rows, opts)
           ws == IF database THEN [i \in DOMAIN sel |-> optsOfRow(opts, sel[i])]
                 ELSE <<opts>>
       IN  /\ webtoons' = ws
           /\ WebtoonGoroutine' = IF database /\ MaxWebtoonGoroutine THEN Len(ws)
                                  ELSE WebtoonGoroutine
           /\ spc' = [j \in DOMAIN ws |-> IF database THEN "queued" ELSE "start"]
           /\ catalog' = [j \in DOMAIN ws |-> <<>>]
           /\ epFetched' = [j \in DOMAIN ws |-> <<>>]
           /\ batches' = [j \in DOMAIN ws |-> <<>>]
           /\ bat' = [j \in DOMAIN ws |-> <<>>]
           /\ nextb' = [j \in DOMAIN ws |-> 0]
           /\ queue' = [j \in DOMAIN ws |-> 0]
           /\ wg' = [j \in DOMAIN ws |-> 0]
    /\ mpc' = IF database THEN "dispatch" ELSE "single"
    /\ UNCHANGED <<flags, rows, files, dispatched, outerQueue,
                   outerWg, exited, otherVars>>

\* GetWebtoons: the query fails, which is logged; main returns
MainQueryFails ==
    /\ Running /\ mpc = "start" /\ database
    /\ exited' = 0
    /\ UNCHANGED <<flags, WebtoonGoroutine, rows, files, mpc,
                   webtoons, dispatched, outerQueue, outerWg, spc, catalog,
                   epFetched, batches, nextb, queue, wg, bat, otherVars>>

\* GetWebtoons: pool.Add(1); go GetWebtoonBatch(pool, db, opts)
DispatchSeries ==
    /\ Running /\ mpc = "dispatch"
    /\ dispatched < Len(webtoons)
    /\ poolHasRoom(outerQueue, WebtoonGoroutine)
    /\ outerQueue' = outerQueue + 1
    /\ outerWg' = outerWg + 1
    /\ dispatched' = dispatched + 1
    /\ spc' = [spc EXCEPT ![dispatched + 1] = "start"]
    /\ UNCHANGED <<flags, WebtoonGoroutine, rows, files, mpc,
                   webtoons, catalog, epFetched, batches, nextb, queue, wg, bat,
                   exited, otherVars>>

\* GetWebtoons: pool.Wait() returns; os.Exit(0)
MainExit ==
    /\ Running /\ mpc = "dispatch"
    /\ dispatched = Len(webtoons)
    /\ outerWg = 0
    /\ exited' = 0
    /\ UNCHANGED <<flags, WebtoonGoroutine, rows, files, mpc,
                   webtoons, dispatched, outerQueue, outerWg, spc, catalog,
                   epFetched, batches, nextb, queue, wg, bat, otherVars>>

\* a panic raised in GetWebtoon: recovered by GetWebtoonBatch, which then
\* releases the outer pool; in main it ends the process with status 2
panicInSeries(j) ==
    IF database
    THEN /\ spc' = [spc EXCEPT ![j] = "recovered"]
         /\ outerQueue' = outerQueue - 1
         /\ outerWg' = outerWg - 1
         /\ exited' = exited
    ELSE /\ spc' = [spc EXCEPT ![j] = "panicked"]
         /\ exited' = 2
         /\ UNCHANGED <<outerQueue, outerWg>>

exitCaughtInSeries(j) == panicInSeries(j)

\* os.Exit(1) called in GetWebtoon: the process ends, no deferred function
\* runs, no recover() sees it
exitInSeries(j) ==
    /\ spc' = [spc EXCEPT ![j] = "exited"]
    /\ exited' = 1
    /\ UNCHANGED <<outerQueue, outerWg>>

\* GetWebtoon returns nil: GetWebtoonBatch releases the outer pool; main returns
returnFromSeries(j) ==
    IF database
    THEN /\ spc' = [spc EXCEPT ![j] = "done"]
         /\ outerQueue' = outerQueue - 1
         /\ outerWg' = outerWg - 1
         /\ exited' = exited
    ELSE /\ spc' = [spc EXCEPT ![j] = "done"]
         /\ exited' = 0
         /\ UNCHANGED <<outerQueue, outerWg>>

\* the catalogs getEpisodeBatches can get for a URL (none for an episode URL)
catalogsOf(url) ==
    IF Contains(url, <<"/", "viewer">>) THEN {<<>>}
    ELSE getAllEpisodeLinks(Listing(url))

\* the URLs of the episodes whose pages getEpisodeBatches fetches, in order
desiredLinks(o, all) ==
    IF Contains(o.url, <<"/", "viewer">>) THEN <<o.url>>
    ELSE LET desired == desiredEpisodes(all, o.minEp, o.maxEp)
         IN  [i \in DOMAIN desired |-> desired[i].url]

planOf(o, all) == getEpisodeBatches(o.url, all, o.minEp, o.maxEp, o.epsPerFile)

\* the state of a saveBatch goroutine that was not started yet
NewBatch == [st |-> "new", idx |-> 0, fetched |-> <<>>, pages |-> <<>>, saves |-> 0]

\* GetWebtoon up to its pool: the title, the directory, the batches
SeriesPlanned(j) ==
    /\ Running /\ spc[j] = "start"
    /\ LET t == getWebtoonTitle(webtoons[j].url)
       IN  /\ ~t.err /\ ~t.panic
           /\ \E all \in catalogsOf(webtoons[j].url) :
                 LET r == planOf(webtoons[j], all)
                 IN  /\ ~r.exit /\ r.err = ""
                     /\ catalog' = [catalog EXCEPT ![j] = all]
                     /\ epFetched' = [epFetched EXCEPT ![j] = desiredLinks(webtoons[j], all)]
                     /\ batches' = [batches EXCEPT ![j] = r.batches]
                     /\ bat' = [bat EXCEPT ![j] = [b \in DOMAIN r.batches |-> NewBatch]]
    /\ spc' = [spc EXCEPT ![j] = "dispatch"]
    /\ UNCHANGED <<flags, WebtoonGoroutine, rows, files, mpc, webtoons, dispatched,
                   outerQueue, outerWg, nextb, queue, wg, exited, otherVars>>

\* GetWebtoon panics before its pool: the URL is no request URI or has too
\* few path segments, or getEpisodeBatches returned "No episode found"
SeriesPanics(j) ==
    /\ Running /\ spc[j] = "start"
    /\ LET t == getWebtoonTitle(webtoons[j].url)
       IN  IF t.err \/ t.panic THEN UNCHANGED catalog
           ELSE \E all \in catalogsOf(webtoons[j].url) :
                   LET r == planOf(webtoons[j], all)
                   IN  /\ ~r.exit /\ r.err # ""
                       /\ catalog' = [catalog EXCEPT ![j] = all]
    /\ panicInSeries(j)
    /\ UNCHANGED <<flags, WebtoonGoroutine, rows, files, mpc, webtoons, dispatched,
                   epFetched, batches, nextb, queue, wg, bat, otherVars>>

\* the pages getImgLinksForEpisode can be at when it ends the process: any
\* page up to the first one on which the manifest fallback fails
exitPlaces(links) ==
    {k \in DOMAIN links :
        \A i \in 1..(k - 1) : ~getImgLinksForEpisode(links[i]).exit}

\* getImgLinksForEpisode ends the process with os.Exit(1): the fetch of the
\* k-th episode page fails, or the manifest fallback does not find what it
\* looks for
SeriesPageExits(j) ==
    /\ Running /\ spc[j] = "start"
    /\ LET t == getWebtoonTitle(webtoons[j].url)
       IN  /\ ~t.err /\ ~t.panic
           /\ \E all \in catalogsOf(webtoons[j].url) :
                 LET r == planOf(webtoons[j], all)
                     links == desiredLinks(webtoons[j], all)
                 IN  /\ r.err = ""
                     /\ catalog' = [catalog EXCEPT ![j] = all]
                     /\ \E k \in exitPlaces(links) :
                           epFetched' = [epFetched EXCEPT ![j] = SubSeq(links, 1, k)]
    /\ exitInSeries(j)
    /\ UNCHANGED <<flags, WebtoonGoroutine, rows, files, mpc, webtoons, dispatched,
                   batches, nextb, queue, wg, bat, otherVars>>

\* GetWebtoon: pool.Add(1); go saveBatch(...)
DispatchBatch(j) ==
    /\ Running /\ spc[j] = "dispatch"
    /\ nextb[j] < Len(batches[j])
    /\ poolHasRoom(queue[j], EpisodeGoroutine)
    /\ queue' = [queue EXCEPT ![j] = @ + 1]
    /\ wg' = [wg EXCEPT ![j] = @ + 1]
    /\ nextb' = [nextb EXCEPT ![j] = @ + 1]
    /\ bat' = [bat EXCEPT ![j][nextb[j] + 1].st = "start"]
    /\ UNCHANGED <<flags, WebtoonGoroutine, rows, files, mpc, webtoons, dispatched,
                   outerQueue, outerWg, spc, catalog, epFetched, batches, exited, otherVars>>

\* saveBatch's deferred calls: recover(), then pool.Done()
batchDone(j) ==
    /\ queue' = [queue EXCEPT ![j] = @ - 1]
    /\ wg' = [wg EXCEPT ![j] = @ - 1]

outFile(j, b) ==
    LET t == getWebtoonTitle(webtoons[j].url)
    IN  outFileOf(t.title, t.lang, batches[j][b], webtoons[j].format)

skipsExistingNever(verify, fs, path) == FALSE

\* the test of saveBatch that skips the batch: FileVerify and os.Stat finds the file
skipsExisting(verify, fs, path) == verify /\ fileExists(fs, path)

\* saveBatch finds its output file on disk under -file: nothing to do
BatchSkip(j, b) ==
    /\ Running /\ bat[j][b].st = "start"
    /\ skipsExisting(FileVerify, files, outFile(j, b))
    /\ bat' = [bat EXCEPT ![j][b].st = "skipped"]
    /\ batchDone(j)
    /\ UNCHANGED <<flags, WebtoonGoroutine, rows, files, mpc, webtoons, dispatched,
                   outerQueue, outerWg, spc, catalog, epFetched, batches, nextb, exited, otherVars>>

\* saveBatch goes on to build the file: getComicFile
BatchBegin(j, b) ==
    /\ Running /\ bat[j][b].st = "start"
    /\ ~skipsExisting(FileVerify, files, outFile(j, b))
    /\ bat' = [bat EXCEPT ![j][b].st = "run"]
    /\ UNCHANGED <<flags, WebtoonGoroutine, rows, files, mpc, webtoons, dispatched,
                   outerQueue, outerWg, spc, catalog, epFetched, batches, nextb, queue, wg, exited,
                   otherVars>>

isGifNever(imgLink) == FALSE

\* strings.Contains(imgLink, ".gif")
isGif(imgLink) == Contains(imgLink, <<".gif">>)

\* the link the loop of saveBatch is at
atLink(j, b) ==
    /\ bat[j][b].st = "run"
    /\ bat[j][b].idx < Len(batches[j][b].imgLinks)
currentLink(j, b) == batches[j][b].imgLinks[bat[j][b].idx + 1]

\* one turn of the loop on a gif link: a warning, continue
BatchGif(j, b) ==
    /\ Running /\ atLink(j, b)
    /\ isGif(currentLink(j, b))
    /\ bat' = [bat EXCEPT ![j][b].idx = @ + 1]
    /\ UNCHANGED <<flags, WebtoonGoroutine, rows, files, mpc, webtoons, dispatched,
                   outerQueue, outerWg, spc, catalog, epFetched, batches, nextb, queue, wg, exited,
                   otherVars>>

\* one turn of the loop: comicFile.addImage(fetchImage(imgLink)) succeeds
BatchImage(j, b) ==
    /\ Running /\ atLink(j, b)
    /\ ~isGif(currentLink(j, b))
    /\ bat' = [bat EXCEPT ![j][b].idx = @ + 1,
                          ![j][b].fetched = Append(@, currentLink(j, b)),
                          ![j][b].pages = Append(@, currentLink(j, b))]
    /\ UNCHANGED <<flags, WebtoonGoroutine, rows, files, mpc, webtoons, dispatched,
                   outerQueue, outerWg, spc, catalog, epFetched, batches, nextb, queue, wg, exited,
                   otherVars>>

\* fetchImage fails (the request, the body): os.Exit(1)
BatchFetchExits(j, b) ==
    /\ Running /\ atLink(j, b)
    /\ ~isGif(currentLink(j, b))
    /\ bat' = [bat EXCEPT ![j][b].st = "fetcherr",
                          ![j][b].fetched = Append(@, currentLink(j, b))]
    /\ exited' = 1
    /\ UNCHANGED <<flags, WebtoonGoroutine, rows, files, mpc, webtoons, dispatched,
                   outerQueue, outerWg, spc, catalog, epFetched, batches, nextb, queue, wg, otherVars>>

\* addImage returns an error: panic, recovered by the deferred function
BatchAddImageFails(j, b) ==
    /\ Running /\ atLink(j, b)
    /\ ~isGif(currentLink(j, b))
    /\ bat' = [bat EXCEPT ![j][b].st = "failed",
                          ![j][b].fetched = Append(@, currentLink(j, b))]
    /\ batchDone(j)
    /\ UNCHANGED <<flags, WebtoonGoroutine, rows, files, mpc, webtoons, dispatched,
                   outerQueue, outerWg, spc, catalog, epFetched, batches, nextb, exited, otherVars>>

\* after the last link: comicFile.save(outFile) succeeds
BatchSave(j, b) ==
    /\ Running /\ bat[j][b].st = "run"
    /\ bat[j][b].idx = Len(batches[j][b].imgLinks)
    /\ files' = writeFile(files, outFile(j, b), bat[j][b].pages)
    /\ bat' = [bat EXCEPT ![j][b].st = "saved", ![j][b].saves = @ + 1]
    /\ batchDone(j)
    /\ UNCHANGED <<flags, WebtoonGoroutine, rows, mpc, webtoons, dispatched,
                   outerQueue, outerWg, spc, catalog, epFetched, batches, nextb, exited, otherVars>>

\* comicFile.save returns an error: panic, recovered by the deferred function
BatchSaveFails(j, b) ==
    /\ Running /\ bat[j][b].st = "run"
    /\ bat[j][b].idx = Len(batches[j][b].imgLinks)
    /\ bat' = [bat EXCEPT ![j][b].st = "failed", ![j][b].saves = @ + 1]
    /\ batchDone(j)
    /\ UNCHANGED <<flags, WebtoonGoroutine, rows, files, mpc, webtoons, dispatched,
                   outerQueue, outerWg, spc, catalog, epFetched, batches, nextb, exited, otherVars>>

\* the row GetWebtoon writes: the maxEp of the last batch as last_chapter
progressRow(j) ==
    LET t == getWebtoonTitle(webtoons[j].url)
    IN  Row(t.title, t.lang, webtoons[j].url,
            batches[j][Len(batches[j])].maxEp,
            webtoons[j].epsPerFile, webtoons[j].format)

waitReturnsEarly(j) == nextb[j] = Len(batches[j])

\* pool.Wait() of GetWebtoon returns: every batch was added and the
\* WaitGroup is back at 0
waitReturns(j) == nextb[j] = Len(batches[j]) /\ wg[j] = 0

\* GetWebtoon after pool.Wait(): the progress row is written, "Completed"
SeriesFinish(j) ==
    /\ Running /\ spc[j] = "dispatch"
    /\ waitReturns(j)
    /\ rows' = upsert(rows, progressRow(j))
    /\ returnFromSeries(j)
    /\ UNCHANGED <<flags, WebtoonGoroutine, files, mpc, webtoons, dispatched,
                   catalog, epFetched, batches, nextb, queue, wg, bat, otherVars>>

\* GetWebtoon after pool.Wait(): db.Exec returns an error, panic
SeriesStoreFails(j) ==
    /\ Running /\ spc[j] = "dispatch"
    /\ waitReturns(j)
    /\ panicInSeries(j)
    /\ UNCHANGED <<flags, WebtoonGoroutine, rows, files, mpc, webtoons, dispatched,
                   catalog, epFetched, batches, nextb, queue, wg, bat, otherVars>>

Next ==
    \/ MainStart
    \/ MainQueryFails
    \/ DispatchSeries
    \/ MainExit
    \/ \E j \in DOMAIN webtoons : SeriesPlanned(j)
    \/ \E j \in DOMAIN webtoons : SeriesPanics(j)
    \/ \E j \in DOMAIN webtoons : SeriesPageExits(j)
    \/ \E j \in DOMAIN webtoons : DispatchBatch(j)
    \/ \E j \in DOMAIN webtoons : SeriesFinish(j)
    \/ \E j \in DOMAIN webtoons : SeriesStoreFails(j)
    \/ \E j \in DOMAIN webtoons : \E b \in DOMAIN batches[j] : BatchSkip(j, b)
    \/ \E j \in DOMAIN webtoons : \E b \in DOMAIN batches[j] : BatchBegin(j, b)
    \/ \E j \in DOMAIN webtoons : \E b \in DOMAIN batches[j] : BatchGif(j, b)
    \/ \E j \in DOMAIN webtoons : \E b \in DOMAIN batches[j] : BatchImage(j, b)
    \/ \E j \in DOMAIN webtoons : \E b \in DOMAIN batches[j] : BatchFetchExits(j, b)
    \/ \E j \in DOMAIN webtoons : \E b \in DOMAIN batches[j] : BatchAddImageFails(j, b)
    \/ \E j \in DOMAIN webtoons : \E b \in DOMAIN batches[j] : BatchSave(j, b)
    \/ \E j \in DOMAIN webtoons : \E b \in DOMAIN batches[j] : BatchSaveFails(j, b)

Spec == InitRun /\ [][Next]_vars

\* ---------------------------------------------------------------------
\* Batch failure isolation
\* ---------------------------------------------------------------------

\* the states in which a saveBatch goroutine has returned
Finished == {"saved", "skipped", "failed"}

\* the batch failed: in fetchImage, or in addImage or save
Failed == {"fetcherr", "failed"}

\* C1: in one series run, a batch that fails during its image fetch or
\* during an append or a save never stops the process or a sibling batch:
\* wherever a batch has failed, the process is still running, or it ended
\* only after every sibling batch of that run had returned.
C1_FailedBatchStopsNoSibling ==
    \A j \in DOMAIN bat : \A b \in DOMAIN bat[j] :
        bat[j][b].st \in Failed =>
            \/ Running
            \/ \A c \in DOMAIN bat[j] : c # b => bat[j][c].st \in Finished

\* ---------------------------------------------------------------------
\* Bounded parallelism
\* ---------------------------------------------------------------------

\* the saveBatch goroutines of series job j that started and did not return
InFlightBatches(j) == {b \in DOMAIN bat[j] : bat[j][b].st \in {"start", "run", "fetcherr"}}

\* the series jobs that started and did not return
InFlightSeries == {j \in DOMAIN spc : spc[j] \in {"start", "dispatch", "exited"}}

\* the series concurrency asked for: W, or the number of rows under MW
SeriesLimit == IF MaxWebtoonGoroutine THEN Len(webtoons) ELSE WebtoonGoroutine

\* C4: at most E saveBatch jobs of one series are started and not finished,
\* and in database mode at most W series jobs (the number of rows under MW)
\* are started and not finished.
C4_BoundedParallelism ==
    /\ \A j \in DOMAIN bat : Cardinality(InFlightBatches(j)) <= EpisodeGoroutine
    /\ database => Cardinality(InFlightSeries) <= SeriesLimit

\* both pools are full with work left: E batches of a series in flight and
\* a further batch not dispatched, W series in flight and a further row queued
C4_Witness ==
    /\ database /\ ~MaxWebtoonGoroutine
    /\ Cardinality(InFlightSeries) = WebtoonGoroutine
    /\ \E j \in DOMAIN spc : spc[j] = "queued"
    /\ \E j \in DOMAIN bat :
          /\ Cardinality(InFlightBatches(j)) = EpisodeGoroutine
          /\ nextb[j] < Len(batches[j])

\* ---------------------------------------------------------------------
\* Progress write ordering
\* ---------------------------------------------------------------------

\* every batch of series job j was dispatched and its saveBatch has returned
AllBatchesFinished(j) ==
    /\ nextb[j] = Len(batches[j])
    /\ \A b \in DOMAIN bat[j] : bat[j][b].st \in Finished

\* a step that writes the progress table or reports a series as completed
ProgressStep ==
    \/ rows' # rows
    \/ \E j \in DOMAIN spc : spc[j] # "done" /\ spc'[j] = "done"

\* C5: the progress record of a series is upserted, and the series reported
\* as completed, only after every batch job dispatched for that series has
\* finished (saved, skipped or failed); no progress write happens while one
\* of its batch jobs is in flight.
C5_ProgressAfterAllBatches ==
    /\ [](\A j \in DOMAIN spc : spc[j] = "done" => AllBatchesFinished(j))
    /\ [][ProgressStep =>
            \E j \in DOMAIN spc :
                /\ spc[j] = "dispatch" /\ spc'[j] = "done"
                /\ AllBatchesFinished(j)
                /\ rows' = upsert(rows, progressRow(j))]_vars

\* a completed series of two batches or more, one saved and one failed,
\* whose progress row is in the table
C5_Witness ==
    \E j \in DOMAIN spc :
        /\ spc[j] = "done"
        /\ Len(batches[j]) >= 2
        /\ \E b \in DOMAIN bat[j] : bat[j][b].st = "saved"
        /\ \E b \in DOMAIN bat[j] : bat[j][b].st = "failed"
        /\ \E i \in DOMAIN rows : rows[i] = progressRow(j)

\* ---------------------------------------------------------------------
\* Idempotent resume
\* ---------------------------------------------------------------------

\* -file was given and a file is at the output path of batch b of job j
FoundOnDisk(j, b) == FileVerify /\ \E f \in files : f.path = outFile(j, b)

\* a saveBatch goroutine that did nothing at all
Untouched(s) == s.idx = 0 /\ s.fetched = <<>> /\ s.pages = <<>> /\ s.saves = 0

\* C6: when -file is set and a file exists at the batch's output path,
\* saveBatch fetches no image, appends nothing and saves nothing, leaves the
\* files as they are, and returns normally, releasing its pool slot.
C6_ExistingFileIsSkipped ==
    /\ [](\A j \in DOMAIN bat : \A b \in DOMAIN bat[j] :
            bat[j][b].st = "skipped" => Untouched(bat[j][b]) /\ FoundOnDisk(j, b))
    /\ [][\A j \in DOMAIN bat : \A b \in DOMAIN bat[j] :
            bat[j][b].st = "start" /\ FoundOnDisk(j, b) /\ bat'[j][b] # bat[j][b] =>
                /\ bat'[j][b].st = "skipped" /\ Untouched(bat'[j][b])
                /\ files' = files
                /\ queue'[j] = queue[j] - 1 /\ wg'[j] = wg[j] - 1
                /\ exited' = exited]_vars

\* a batch was skipped, the file found at its path still holds what it held
\* before the run, and a sibling batch of the run was saved
C6_Witness ==
    \E j \in DOMAIN bat : \E b \in DOMAIN bat[j] :
        /\ bat[j][b].st = "skipped"
        /\ [path |-> outFile(j, b), data |-> <<"old">>] \in files
        /\ \E c \in DOMAIN bat[j] : bat[j][c].st = "saved"

\* ---------------------------------------------------------------------
\* Empty range
\* ---------------------------------------------------------------------

\* series job j asks for a listing, its URL gives a title, and no episode
\* of the catalog it crawled has a number in [minEp, maxEp]
NoneInRange(j) ==
    /\ ~Contains(webtoons[j].url, <<"/", "viewer">>)
    /\ ~getWebtoonTitle(webtoons[j].url).err
    /\ ~getWebtoonTitle(webtoons[j].url).panic
    /\ \A i \in DOMAIN catalog[j] :
          LET n == episodeNo(catalog[j][i].url)
          IN  ~(webtoons[j].minEp <= n /\ n <= webtoons[j].maxEp)

\* the files a run can find on disk under the directory of series job j
FilesOf(j) ==
    LET t == getWebtoonTitle(webtoons[j].url)
    IN  {f \in files : f.path[2] = t.title /\ f.path[4] = t.lang}

\* C7: when no catalog episode has a number in [minEp, maxEp],
\* getEpisodeBatches fails with "No episode found" and returns no batch, and
\* the run stops before it starts: no episode page is fetched for image
\* links, no batch job is dispatched, no output file is written and no
\* progress record is written.
C7_EmptyRangeStopsTheRun ==
    \A j \in DOMAIN webtoons :
        NoneInRange(j) =>
            /\ planOf(webtoons[j], catalog[j]).err = "No episode found"
            /\ planOf(webtoons[j], catalog[j]).batches = <<>>
            /\ spc[j] \in {"queued", "start", "recovered", "panicked"}
            /\ epFetched[j] = <<>>
            /\ batches[j] = <<>> /\ bat[j] = <<>> /\ nextb[j] = 0 /\ queue[j] = 0
            /\ FilesOf(j) \subseteq UNION OldFiles
            /\ ~database => rows = <<>>

\* a series job that crawled a catalog with episodes, none of them in the
\* range asked for, and ended on the panic
C7_Witness ==
    \E j \in DOMAIN webtoons :
        /\ NoneInRange(j)
        /\ catalog[j] # <<>>
        /\ spc[j] \in {"recovered", "panicked"}

\* ---------------------------------------------------------------------
\* Page order within a batch
\* ---------------------------------------------------------------------

\* s is an initial part of t
IsPrefix(s, t) == Len(s) <= Len(t) /\ s = SubSeq(t, 1, Len(s))

\* the links of a batch without the animated ones, in link order
StillLinks(links) == SelectSeq(links, LAMBDA l : \A i \in DOMAIN l : l[i] # ".gif")

\* C9: for every batch that is not skipped, the images appended to the
\* builder are the batch's image links in link order without the links that
\* contain ".gif", each fetched before it is appended; save is called at most
\* once, only after the last link was processed, and never for a batch in
\* which an append failed.
C9_PagesInLinkOrder ==
    \A j \in DOMAIN bat : \A b \in DOMAIN bat[j] :
        LET s == bat[j][b]
            links == batches[j][b].imgLinks
            done == StillLinks(SubSeq(links, 1, s.idx))
        IN  s.st # "skipped" =>
                /\ s.pages = done
                /\ IsPrefix(s.pages, s.fetched)
                /\ IsPrefix(s.fetched, StillLinks(links))
                /\ s.saves <= 1
                /\ s.saves = 1 => s.idx = Len(links) /\ s.pages = StillLinks(links)
                /\ s.st = "saved" => s.saves = 1
                /\ s.pages # s.fetched => s.saves = 0 /\ s.st \in Failed

\* a saved batch of two pages or more with animated links among its links:
\* the file holds the still ones, in link order
C9_Witness ==
    \E j \in DOMAIN bat : \E b \in DOMAIN bat[j] :
        /\ bat[j][b].st = "saved"
        /\ Len(bat[j][b].pages) >= 2
        /\ Len(bat[j][b].pages) < Len(batches[j][b].imgLinks)
        /\ [path |-> outFile(j, b), data |-> bat[j][b].pages] \in files

\* ---------------------------------------------------------------------
\* One output file per batch
\* ---------------------------------------------------------------------

\* the saved batches of series job j
SavedBatches(j) == {b \in DOMAIN bat[j] : bat[j][b].st = "saved"}

\* C10: within one series run two different batches never have the same
\* output path, so the run has as many distinct output files as it has
\* saved batches.
C10_OnePathPerBatch ==
    \A j \in DOMAIN batches :
        /\ \A b, c \in DOMAIN batches[j] : b # c => outFile(j, b) # outFile(j, c)
        /\ Cardinality({outFile(j, b) : b \in SavedBatches(j)})
               = Cardinality(SavedBatches(j))

\* ---------------------------------------------------------------------
\* The progress record names a completed episode
\* ---------------------------------------------------------------------

\* C11: whenever GetWebtoon has written the progress row of a series, with
\* the maxEp of the final batch as last chapter, every batch of that run was
\* fully processed: its file saved, or skipped as already existing; a run in
\* which a batch failed records nothing for that batch's episodes.
C11_RecordedEpisodesAreComplete ==
    \A j \in DOMAIN spc :
        spc[j] = "done" =>
            /\ \E i \in DOMAIN rows :
                  /\ rows[i] = progressRow(j)
                  /\ rows[i].last_chapter = batches[j][Len(batches[j])].maxEp
            /\ \A b \in DOMAIN bat[j] : bat[j][b].st \in {"saved", "skipped"}

\* ---------------------------------------------------------------------
\* Batch episode range
\* ---------------------------------------------------------------------

\* getEpisodeBatches has returned batches
Planned == ppc = "done" /\ ~outPlan.exit /\ outPlan.err = ""

\* the <<minEp, maxEp>> of the batches, in batch order
RangesOf(bs) == [b \in DOMAIN bs |-> <<bs[b].minEp, bs[b].maxEp>>]

\* episodes 1..3 of a series in the catalog, all asked for, two per file
OneToThreeByTwo ==
    /\ inUrl = SeriesUrl("en", "alpha")
    /\ inAll = <<[title |-> "Ep1", url |-> EpisodeUrl("en", "alpha", <<"1">>)],
                 [title |-> "Ep2", url |-> EpisodeUrl("en", "alpha", <<"2">>)],
                 [title |-> "Ep3", url |-> EpisodeUrl("en", "alpha", <<"3">>)]>>
    /\ inMinEp = 1 /\ inMaxEp = 3 /\ inEpsPerBatch = 2

\* C12: every batch getEpisodeBatches produces has minEp equal to the episode
\* number of its first episode and maxEp equal to that of its last, with
\* minEp <= maxEp, and of two consecutive batches the earlier one's maxEp is
\* <= the later one's minEp; episodes 1..3 with epsPerBatch = 2 give the
\* batches [1,2] and [3,3].
C12_BatchEpisodeRange ==
    Planned =>
        LET bs == outPlan.batches
        IN  /\ \A b \in DOMAIN bs :
                  /\ bs[b].minEp = episodeNo(bs[b].episodes[1])
                  /\ bs[b].maxEp = episodeNo(bs[b].episodes[Len(bs[b].episodes)])
                  /\ bs[b].minEp <= bs[b].maxEp
            /\ \A b \in 1..(Len(bs) - 1) : bs[b].maxEp <= bs[b + 1].minEp
            /\ OneToThreeByTwo => RangesOf(bs) = <<<<1, 2>>, <<3, 3>>>>

\* the plan for episodes 1..3, two per file, was made
C12_Witness == Planned /\ OneToThreeByTwo /\ Len(outPlan.batches) = 2

(***************************************************************************)
(* Functions of the program called on their own.                           *)
(***************************************************************************)
\* digits in a run of digits of a URL given to episodeNo
MaxDigits == 2

\* the runs of digits tried: short ones, and ones around math.MaxInt
DigitRuns ==
    UNION {SeqsOfLen({"0", "7", "9"}, n) : n \in 1..MaxDigits}
        \cup {Itoa(MaxInt), Itoa(MaxInt - 1), <<"0">> \o Itoa(MaxInt),
              SubSeq(Itoa(MaxInt), 1, Len(Itoa(MaxInt)) - 1) \o <<"8">>,
              Itoa(MaxInt) \o <<"0">>}

\* the URLs given to episodeNo
EpisodeNoUrls ==
    LET pre == <<"https://", "www.", "webtoons.com/", "viewer", "?">>
    IN  {pre \o <<"title_no=", "9">>, pre \o <<"episode_no=">>,
         pre \o <<"episode_no=", "x", "7">>}
        \cup {pre \o <<"episode_no=">> \o d : d \in DigitRuns}
        \cup {pre \o <<"episode_no=">> \o d \o <<"&", "title_no=", "9">> : d \in DigitRuns}
        \cup {pre \o <<"episode_no=", "&", "episode_no=">> \o d : d \in DigitRuns}
        \cup {pre \o <<"episode_no=">> \o d \o <<"&", "episode_no=">> \o e :
                 d \in DigitRuns, e \in {<<"7">>, <<"9", "0">>}}

\* titles in a list given to createTitle
MaxTitles == 3

\* the non-empty lists of episode titles given to createTitle
TitleLists == UNION {SeqsOfLen({"", "A", "B", "C", "x_"}, n) : n \in 1..MaxTitles}

\* entries in the image map of a manifest
MaxEntries == 3

\* the keys "1", "10" and "2" as bytes, and the file names of a manifest
ManifestEntries == [key : {<<49>>, <<49, 48>>, <<50>>}, file : {<<"f1">>, <<"f2">>}]

\* the img elements of the viewer_lst region: none, with and without data-url
ImgElements ==
    {<<>>,
     <<[hasDataUrl |-> TRUE, dataUrl |-> Img("p1")]>>,
     <<[hasDataUrl |-> FALSE, dataUrl |-> <<>>]>>,
     <<[hasDataUrl |-> TRUE, dataUrl |-> Img("p2")],
       [hasDataUrl |-> FALSE, dataUrl |-> <<>>],
       [hasDataUrl |-> TRUE, dataUrl |-> Img("p1")]>>}

PathRules ==
    {<<"https://", "cdn/", "{=filename}", "?type=q70">>,
     <<"https://", "{=filename}", "/", "{=filename}">>}

\* the episode pages given to getImgLinksForEpisode: pages with both patterns
\* and a manifest, and pages where one of the four steps of the fallback fails
EpisodePages ==
    [imgs : ImgElements, hasDocumentURL : {TRUE}, manifestFetchErr : {FALSE},
     manifestJsonErr : {FALSE}, hasPathRule : {TRUE},
     manifest : SeqsUpTo(ManifestEntries, MaxEntries), pathRule : PathRules]
    \cup
    [imgs : ImgElements, hasDocumentURL : BOOLEAN, manifestFetchErr : BOOLEAN,
     manifestJsonErr : BOOLEAN, hasPathRule : BOOLEAN,
     manifest : {<<[key |-> <<50>>, file |-> <<"f1">>]>>},
     pathRule : {<<"https://", "cdn/", "{=filename}", "?type=q70">>}]

InitCall ==
    /\ \/ fn = "episodeNo" /\ arg \in EpisodeNoUrls
       \/ fn = "createTitle" /\ arg \in TitleLists
       \/ fn = "getImgLinksForEpisode" /\ arg \in EpisodePages
    /\ res = <<>>
    /\ fpc = "call"
    /\ CallOnly

CallEpisodeNo ==
    /\ fpc = "call" /\ fn = "episodeNo"
    /\ res' = episodeNo(arg)
    /\ fpc' = "done"
    /\ UNCHANGED <<fn, arg, crawlVars, planVars, runVars>>

CallCreateTitle ==
    /\ fpc = "call" /\ fn = "createTitle"
    /\ res' = createTitle(arg)
    /\ fpc' = "done"
    /\ UNCHANGED <<fn, arg, crawlVars, planVars, runVars>>

\* getImgLinksForEpisode once the page is fetched and parsed
CallGetImgLinksForEpisode ==
    /\ fpc = "call" /\ fn = "getImgLinksForEpisode"
    /\ res' = imgLinksOfDoc(arg)
    /\ fpc' = "done"
    /\ UNCHANGED <<fn, arg, crawlVars, planVars, runVars>>

NextCall == CallEpisodeNo \/ CallCreateTitle \/ CallGetImgLinksForEpisode

SpecCall == InitCall /\ [][NextCall]_vars

\* ---------------------------------------------------------------------
\* Episode-number extraction
\* ---------------------------------------------------------------------

\* the places of a URL where "episode_no=" is followed by a digit
NumberedAt(u) == {i \in 1..(Len(u) - 1) : u[i] = "episode_no=" /\ u[i + 1] \in Digit}

\* the longest run of digits of u that starts at place k
RECURSIVE DigitRun(_, _)
DigitRun(u, k) ==
    IF k > Len(u) \/ u[k] \notin Digit THEN <<>> ELSE <<u[k]>> \o DigitRun(u, k + 1)

\* the digits after the leftmost "episode_no=" that digits follow
FirstNumber(u) == DigitRun(u, SetMin(NumberedAt(u)) + 1)

EpisodeNoReturned == fpc = "done" /\ fn = "episodeNo"

\* C13 as stated: for every URL that contains "episode_no=" followed by the
\* decimal digits of N, episodeNo returns N, and for every URL without that
\* pattern it returns 0.
C13_ReturnsTheNumberOfTheUrl ==
    EpisodeNoReturned =>
        IF NumberedAt(arg) = {} THEN res = 0
        ELSE Itoa(res) = stripZeros(FirstNumber(arg))

\* C13: episodeNo returns the number written after the leftmost
\* "episode_no=" that digits follow when that number is at most math.MaxInt,
\* and 0 when it is larger or when no "episode_no=" is followed by a digit.
C13_ReturnsTheNumberThatFits ==
    EpisodeNoReturned =>
        IF NumberedAt(arg) = {} THEN res = 0
        ELSE IF digitsExceed(stripZeros(FirstNumber(arg)), Itoa(MaxInt)) THEN res = 0
        ELSE Itoa(res) = stripZeros(FirstNumber(arg))

\* episodeNo returned the first of two different numbers of a URL, one of
\* several digits
C13_Witness ==
    /\ EpisodeNoReturned
    /\ Cardinality(NumberedAt(arg)) = 2
    /\ res > 9
    /\ \E i \in NumberedAt(arg) : DigitRun(arg, i + 1) # FirstNumber(arg)

\* ---------------------------------------------------------------------
\* Batch title
\* ---------------------------------------------------------------------

\* the titles of a non-empty list in order, "_" between each two
RECURSIVE Joined(_)
Joined(ts) == IF Len(ts) = 1 THEN ts[1] ELSE (ts[1] \o "_") \o Joined(Tail(ts))

\* C14: for every non-empty sequence of episode titles, empty titles
\* included, createTitle returns the titles joined in order by "_", with no
\* leading and no trailing separator added; <<"A", "B", "C">> gives "A_B_C".
C14_TitlesJoinedByUnderscore ==
    fpc = "done" /\ fn = "createTitle" =>
        /\ res = Joined(arg)
        /\ arg = <<"A", "B", "C">> => res = "A_B_C"

\* createTitle returned "A_B_C" for the titles A, B, C
C14_Witness ==
    fpc = "done" /\ fn = "createTitle" /\ arg = <<"A", "B", "C">> /\ res = "A_B_C"

\* ---------------------------------------------------------------------
\* Single-episode path
\* ---------------------------------------------------------------------

\* what the episode pages of the site show, as <<image links, episode number>>
ShownAt(url) ==
    CASE url = EpisodeUrl("en", "alpha", <<"2">>) -> <<<<Img("a2"), Gif("anim")>>, 2>>
      [] url = EpisodeUrl("en", "alpha", <<"3">>) -> <<<<Gif("cover"), Img("a3")>>, 3>>
      [] url = TeaserUrl -> <<<<Img("t0")>>, 0>>

\* C15: for a viewer URL getEpisodeBatches fetches no listing page and
\* returns exactly one batch, whose image links are those resolved for that
\* URL and whose minEp and maxEp are both episodeNo(url), whatever minEp,
\* maxEp and epsPerBatch were asked for.
C15_ViewerUrlGivesOneBatch ==
    ppc = "done" /\ Contains(inUrl, <<"/", "viewer">>) =>
        /\ ~outPlan.crawled
        /\ outPlan.err = ""
        /\ ~outPlan.exit =>
              /\ Len(outPlan.batches) = 1
              /\ outPlan.batches[1].imgLinks = ShownAt(inUrl)[1]
              /\ outPlan.batches[1].minEp = ShownAt(inUrl)[2]
              /\ outPlan.batches[1].maxEp = ShownAt(inUrl)[2]
              /\ ShownAt(inUrl)[2] = episodeNo(inUrl)

\* the one batch of episode 2, planned with a range that leaves episode 2
\* out and a catalog that holds other episodes
C15_Witness ==
    /\ ppc = "done" /\ inUrl = EpisodeUrl("en", "alpha", <<"2">>)
    /\ inMinEp = 3 /\ inEpsPerBatch = 2 /\ Len(inAll) >= 2
    /\ Len(outPlan.batches) = 1 /\ outPlan.batches[1].minEp = 2

\* ---------------------------------------------------------------------
\* Catalog URL uniqueness
\* ---------------------------------------------------------------------

\* C16: whatever URLs and captions the listing pages carry, the list
\* getAllEpisodeLinks returns holds no two entries with the same URL.
C16_CatalogUrlsUnique ==
    cpc = "done" =>
        \A i, k \in DOMAIN allEpisode :
            i # k => allEpisode[i].url # allEpisode[k].url

\* ---------------------------------------------------------------------
\* Crawler fetch error
\* ---------------------------------------------------------------------

\* the episodes of the pages served for page numbers 1..k, in listing order
RECURSIVE ServedUpTo(_, _)
ServedUpTo(src, k) ==
    IF k = 0 THEN <<>>
    ELSE ServedUpTo(src, k - 1) \o getEpisodeLinksForPage(ServedPage(src, k))

\* C17: when the fetch of listing page p fails, getAllEpisodeLinks fetches no
\* further page, raises no error, and returns the episodes accumulated from
\* pages 1..p-1 sorted by episode number, an empty list when p = 1.
C17_FetchErrorEndsTheCrawl ==
    fetchFailed =>
        /\ cpc = "done"
        /\ fetchedPages = [i \in 1..page |-> i]
        /\ Range(allEpisode) = Range(ServedUpTo(source, page - 1))
        /\ NoRepeat(allEpisode)
        /\ AscendingByEpisodeNo(allEpisode)
        /\ page = 1 => allEpisode = <<>>

\* the fetch of page 3 failed and the two episodes of pages 1 and 2 are returned
C17_Witness ==
    /\ fetchFailed /\ cpc = "done"
    /\ page = 3
    /\ Len(allEpisode) = 2
    /\ episodeNo(allEpisode[1].url) < episodeNo(allEpisode[2].url)

\* ---------------------------------------------------------------------
\* Fallback image resolution
\* ---------------------------------------------------------------------

\* key a comes before key b in the order of their bytes
BytesBefore(a, b) ==
    \E i \in 1..(Len(a) + 1) :
        /\ i <= Len(b)
        /\ \A k \in 1..(i - 1) : a[k] = b[k]
        /\ i = Len(a) + 1 \/ a[i] < b[i]

\* the keys of a manifest, and the file name of a key
KeysOf(m) == {m[i].key : i \in DOMAIN m}
FileOf(m, k) ==
    m[CHOOSE i \in DOMAIN m :
          m[i].key = k /\ \A n \in (i + 1)..Len(m) : m[n].key # k].file

\* the path template with the file name in the place of each placeholder
Filled(rule, file) ==
    Flatten([i \in DOMAIN rule |-> IF rule[i] = "{=filename}" THEN file ELSE <<rule[i]>>])

\* the place of key k among the keys of m in ascending order
PlaceOf(m, k) == 1 + Cardinality({c \in KeysOf(m) : BytesBefore(c, k)})

\* every step of the fallback works on the page
FallbackWorks(doc) ==
    /\ doc.hasDocumentURL /\ ~doc.manifestFetchErr
    /\ ~doc.manifestJsonErr /\ doc.hasPathRule

ImgLinksReturned == fpc = "done" /\ fn = "getImgLinksForEpisode"

\* C18: getImgLinksForEpisode uses the manifest fallback exactly when the
\* primary container has no image element; the fallback returns one URL per
\* manifest key, in ascending lexicographic order of the keys, each the path
\* template with the placeholder replaced by that key's file name, whatever
\* the order of the entries in the manifest.
C18_FallbackSortsByKey ==
    ImgLinksReturned =>
        IF Len(arg.imgs) = 0
        THEN FallbackWorks(arg) =>
                /\ ~res.exit
                /\ Len(res.links) = Cardinality(KeysOf(arg.manifest))
                /\ \A k \in KeysOf(arg.manifest) :
                      res.links[PlaceOf(arg.manifest, k)]
                          = Filled(arg.pathRule, FileOf(arg.manifest, k))
        ELSE /\ ~res.exit
             /\ res.links = SelectSeq([i \in DOMAIN arg.imgs |-> arg.imgs[i].dataUrl],
                                      LAMBDA u : u # <<>>)

\* the fallback returned the URLs of the keys "1", "10", "2" in that order
\* for a manifest that lists them as "2", "10", "1"
C18_Witness ==
    /\ ImgLinksReturned /\ Len(arg.imgs) = 0 /\ FallbackWorks(arg)
    /\ [i \in DOMAIN arg.manifest |-> arg.manifest[i].key] = <<<<50>>, <<49, 48>>, <<49>>>>
    /\ Len(res.links) = 3
    /\ res.links[2] = Filled(arg.pathRule, arg.manifest[2].file)

\* ---------------------------------------------------------------------
\* Structural errors are fatal for the whole run
\* ---------------------------------------------------------------------

\* series job j has fetched an episode page without image elements on which
\* the manifest fallback fails
MetBrokenPage(j) ==
    \E i \in DOMAIN epFetched[j] :
        /\ Len(Web(epFetched[j][i]).imgs) = 0
        /\ ~FallbackWorks(Web(epFetched[j][i]))

\* C19: when the fallback does not find one of its two patterns, or the
\* manifest fetch or parse fails, the whole run ends with a failure status,
\* also inside a series job that recovers from crashes; from then on no batch
\* is planned, no output file is saved and no progress record is written.
C19_StructuralErrorEndsTheRun ==
    /\ [](\A j \in DOMAIN epFetched :
            MetBrokenPage(j) =>
                /\ exited = 1
                /\ spc[j] = "exited"
                /\ batches[j] = <<>> /\ bat[j] = <<>>)
    /\ [][(\E j \in DOMAIN epFetched : MetBrokenPage(j)) =>
            /\ batches' = batches /\ bat' = bat
            /\ files' = files /\ rows' = rows
            /\ exited' = 1]_vars

\* in database mode the run has ended on the broken page of one series job
\* while another series job had not returned
C19_Witness ==
    /\ database /\ exited = 1
    /\ \E j \in DOMAIN epFetched :
          /\ MetBrokenPage(j)
          /\ \E k \in DOMAIN spc : k # j /\ spc[k] \in {"queued", "start", "dispatch"}

\* ---------------------------------------------------------------------
\* Series failure isolation
\* ---------------------------------------------------------------------

\* series job j met a failure: a panic of GetWebtoon, a failed episode page
\* fetch (on pages that are not broken), or a failed batch
SeriesFailed(j) ==
    \/ spc[j] = "recovered"
    \/ spc[j] = "exited" /\ ~MetBrokenPage(j)
    \/ \E b \in DOMAIN bat[j] : bat[j][b].st \in Failed

\* C8: in database mode a failure in one series job is caught at that job's
\* boundary: wherever a series job has failed, the process is still running,
\* or it ended only after every other series job had returned from
\* GetWebtoonBatch (or on a broken page, which is meant to end the run).
C8_FailedSeriesStopsNoOtherSeries ==
    database =>
        \A j \in DOMAIN spc :
            SeriesFailed(j) =>
                \/ Running
                \/ \E k \in DOMAIN spc : MetBrokenPage(k)
                \/ \A k \in DOMAIN spc : k # j => spc[k] \in {"done", "recovered"}

\* ---------------------------------------------------------------------
\* Pool accounting and progress
\* ---------------------------------------------------------------------

\* series job j still has a batch that pool.Add(1) has not let through
BatchesLeft(j) == spc[j] = "dispatch" /\ nextb[j] < Len(batches[j])

\* the slots of j's pool are those of its started, unfinished saveBatch jobs:
\* each job gave its slot back exactly once, however it ended
SlotsReleasedOnce ==
    \A j \in DOMAIN bat :
        /\ queue[j] = Cardinality(InFlightBatches(j))
        /\ wg[j] = queue[j]
        /\ \A b \in DOMAIN bat[j] : b > nextb[j] => bat[j][b].st = "new"

\* while the process runs, a series with batches left can go on: its pool
\* has room for the next batch, or a running job is about to free a slot
DispatchGoesOn ==
    \A j \in DOMAIN spc :
        Running /\ BatchesLeft(j) =>
            \/ poolHasRoom(queue[j], EpisodeGoroutine)
            \/ InFlightBatches(j) # {}

\* C20: every dispatched batch job releases its pool slot exactly once,
\* whether it saves, skips or fails with a recovered crash, and so, for every
\* -E value parseOpts accepts, a running series never stands still before
\* its last batch is dispatched: pool.Add finds room or a job is in flight.
C20_PoolAccountingAndProgress == SlotsReleasedOnce /\ DispatchGoesOn

\* ---------------------------------------------------------------------
\* Progress on resume
\* ---------------------------------------------------------------------

\* database mode seeding each series from its stored row
ResumedRun == database /\ ~confOverride

\* two rows of the same series: the table's PRIMARY KEY(titre, lang)
SameSeries(r, q) == r.titre = q.titre /\ r.lang = q.lang

\* the rows of table new that table old does not hold
Written(old, new) ==
    {new[k] : k \in DOMAIN new} \ {old[i] : i \in DOMAIN old}

\* no row of old is followed in new by a row of its series with a lower
\* last_chapter
NoRowRegresses(old, new) ==
    \A i \in DOMAIN old : \A k \in DOMAIN new :
        SameSeries(old[i], new[k]) => new[k].last_chapter >= old[i].last_chapter

\* the same for the rows stored under a listing URL
NoListingRowRegresses(old, new) ==
    \A i \in DOMAIN old : \A k \in DOMAIN new :
        SameSeries(old[i], new[k]) /\ ~Contains(old[i].url, <<"/", "viewer">>) =>
            new[k].last_chapter >= old[i].last_chapter

\* a row written under a viewer URL carries the episode number of that URL
ViewerRowsCarryTheirNumber(old, new) ==
    \A r \in Written(old, new) :
        Contains(r.url, <<"/", "viewer">>) => r.last_chapter = episodeNo(r.url)

\* the table changes only when a series job with batches completes, and
\* then only in the row of that series: a run that planned no batch, for
\* want of an episode, writes nothing
OnlyRunsWithBatchesWrite ==
    rows' # rows =>
        \E j \in DOMAIN spc :
            /\ spc[j] = "dispatch" /\ spc'[j] = "done"
            /\ batches[j] # <<>>
            /\ \A r \in Written(rows, rows') :
                  /\ r.url = webtoons[j].url
                  /\ r.last_chapter = batches[j][Len(batches[j])].maxEp
            /\ \A i \in DOMAIN rows :
                  (\A r \in Written(rows, rows') : ~SameSeries(rows[i], r)) =>
                      \E k \in DOMAIN rows' : rows'[k] = rows[i]

StoredFor(j) ==
    LET t == getWebtoonTitle(webtoons[j].url)
    IN  {rows[i] : i \in {i \in DOMAIN rows :
                            rows[i].titre = t.title /\ rows[i].lang = t.lang}}

OtherRuns == sortedOrders(episodeSet)

\* two entries of the set that less does not tell apart
Tied(a, b) == a # b /\ ~less(a, b) /\ ~less(b, a)

\* C22: two runs of getAllEpisodeLinks over the same sequence of listing
\* pages return the same list in the same order, also when several episode
\* URLs have the same extracted episode number: the list a finished crawl
\* returned is the only one any run over these pages returns.
C22_CrawlIsDeterministic ==
    cpc = "done" => \A other \in OtherRuns : other = allEpisode

\* the crawl is deterministic as long as no two entries are tied
CrawlIsDeterministicWithoutTies ==
    cpc = "done" /\ (\A a, b \in episodeSet : ~Tied(a, b)) =>
        \A other \in OtherRuns : other = allEpisode

\* what follows from it for the planner: the batches planned from the list
\* one run returned are those planned from the list of any other run
PlanFollowsTheCrawl ==
    ppc = "done" /\ ~Contains(inUrl, <<"/", "viewer">>) =>
        \A other \in sortedOrders(Range(inAll)) :
            getEpisodeBatches(inUrl, other, inMinEp, inMaxEp, inEpsPerBatch) = outPlan

====
